---------------------------- MODULE Spec2Model ----------------------------
(***************************************************************************)
(* Paper-trading simulation engine: the PaperBroker ledger, the SMA        *)
(* crossover strategy and the bar-by-bar backtest loop with its stop-loss  *)
(* / take-profit guard.                                                    *)
(*                                                                         *)
(* Prices are integers (a fixed number of price ticks); an average entry   *)
(* price and a pnl are exact rationals [n |-> numerator, d |-> denominator]*)
(* in lowest terms, so Python's true division is modelled by its exact     *)
(* value.                                                                  *)
(***************************************************************************)
EXTENDS Integers, Sequences, FiniteSets, TLC

VARIABLES
    balance,          \* PaperBroker.balance
    positions,        \* PaperBroker.positions: symbol -> [qty, avg_price]
    trades,           \* PaperBroker.trades
    last,             \* the last call made on the broker or the strategy, its arguments,
                      \* the ledger it found and what it returned
    fast_period,      \* SMACrossoverStrategy.fast_period
    slow_period,      \* SMACrossoverStrategy.slow_period
    signal_history,   \* BaseStrategy._signal_history
    MODE,             \* main.py: "BACKTEST" or "LIVE"
    kill,             \* live: the kill-switch file exists
    df,               \* backtest: the table of close prices
    i,                \* backtest: the loop index (0-based row number)
    pc,               \* where the run is: in its loop or past it
    signal,           \* the signal of the current step
    price,            \* the latest close of the current step
    stop_loss_percent,   \* configured stop-loss fraction <<num, den>>
    take_profit_percent, \* configured take-profit fraction <<num, den>>
    csv,              \* rows appended to the trades CSV by log_trade_csv (all columns but
                      \* the timestamp)
    initial_balance,  \* INITIAL_BALANCE / backtest's initial_balance
    clock,            \* the latest reading of datetime.now()
    csv_timestamp     \* the timestamp column of the trades CSV, row by row

ledgerVars == <<balance, positions, trades>>
stratVars  == <<fast_period, slow_period, signal_history>>
timeVars   == <<clock, csv_timestamp>>
btVars     == <<MODE, kill, df, i, pc, signal, price, stop_loss_percent, take_profit_percent, csv,
                initial_balance, clock, csv_timestamp>>
vars == <<balance, positions, trades, last, fast_period, slow_period, signal_history,
          MODE, kill, df, i, pc, signal, price, stop_loss_percent, take_profit_percent, csv,
          initial_balance, clock, csv_timestamp>>

---------------------------------------------------------------------------
(* Bounds and input sets *)

MaxTrades == 4                      \* ledger calls explored until trades has this length
Symbols == {"X", "Y"}
Prices == {100, 120}
Qtys == {1, 10}
InitialBalances == {0, 1000, 100000}

---------------------------------------------------------------------------
(* Exact rational arithmetic for avg_price and pnl *)

RECURSIVE GCD(_, _)
GCD(a, b) == IF b = 0 THEN a ELSE GCD(b, a % b)

Abs(x) == IF x < 0 THEN -x ELSE x

\* n / d in lowest terms, d > 0
Rat(n, d) ==
    LET g == GCD(Abs(n), Abs(d))
    IN  [n |-> n \div g, d |-> d \div g]

IntRat(x) == [n |-> x, d |-> 1]

---------------------------------------------------------------------------
(* PaperBroker *)

Ledger == [balance |-> balance, positions |-> positions, trades |-> trades]

\* PaperBroker.__init__
NoPositions == [s \in {} |-> 0]
PaperBroker(initial) == [balance |-> initial, positions |-> NoPositions, trades |-> <<>>]

\* the position left by a successful buy, given how the average is formed
Bought(L, symbol, p, qty, avg_price) ==
    [ledger |-> [balance   |-> L.balance - p * qty,
                 positions |-> [s \in DOMAIN L.positions \cup {symbol} |->
                                   IF s # symbol THEN L.positions[s]
                                   ELSE IF symbol \in DOMAIN L.positions
                                        THEN [qty |-> L.positions[symbol].qty + qty,
                                              avg_price |-> avg_price]
                                        ELSE [qty |-> qty, avg_price |-> IntRat(p)]],
                 trades    |-> Append(L.trades, <<"BUY", symbol, p, qty>>)],
     ret |-> TRUE]

WeightedAvg(pos, p, qty) ==
    Rat(pos.qty * pos.avg_price.n + qty * p * pos.avg_price.d, pos.avg_price.d * (pos.qty + qty))

\* buy without the balance check
buy_unchecked(L, symbol, p, qty) ==
    Bought(L, symbol, p, qty,
           IF symbol \in DOMAIN L.positions THEN WeightedAvg(L.positions[symbol], p, qty)
           ELSE IntRat(p))

\* buy rejecting a cost equal to the balance
buy_strict(L, symbol, p, qty) ==
    IF p * qty >= L.balance THEN [ledger |-> L, ret |-> FALSE]
    ELSE buy_unchecked(L, symbol, p, qty)

\* buy averaging the old average and the new price without their quantities
buy_plain_average(L, symbol, p, qty) ==
    IF p * qty > L.balance THEN [ledger |-> L, ret |-> FALSE]
    ELSE Bought(L, symbol, p, qty,
                IF symbol \in DOMAIN L.positions
                THEN Rat(L.positions[symbol].avg_price.n + p * L.positions[symbol].avg_price.d,
                         2 * L.positions[symbol].avg_price.d)
                ELSE IntRat(p))

\* PaperBroker.buy: the ledger after the call and the returned boolean
buy(L, symbol, p, qty) ==
    LET cost == p * qty
    IN  IF cost > L.balance
        THEN [ledger |-> L, ret |-> FALSE]
        ELSE LET newpos ==
                     IF symbol \in DOMAIN L.positions
                     THEN LET pos == L.positions[symbol]
                              total_qty == pos.qty + qty
                              \* (pos.qty * pos.avg_price + qty * price) / total_qty
                              avg_price == Rat(pos.qty * pos.avg_price.n + qty * p * pos.avg_price.d,
                                               pos.avg_price.d * total_qty)
                          IN  [qty |-> total_qty, avg_price |-> avg_price]
                     ELSE [qty |-> qty, avg_price |-> IntRat(p)]
             IN  [ledger |-> [balance   |-> L.balance - cost,
                              positions |-> [s \in DOMAIN L.positions \cup {symbol} |->
                                                IF s = symbol THEN newpos ELSE L.positions[s]],
                              trades    |-> Append(L.trades, <<"BUY", symbol, p, qty>>)],
                  ret |-> TRUE]

\* sell with the closing steps given separately
Sold(L, symbol, p, credit, keep) ==
    LET pos == L.positions[symbol]
        pnl == Rat((p * pos.avg_price.d - pos.avg_price.n) * pos.qty, pos.avg_price.d)
    IN  [ledger |-> [balance   |-> L.balance + credit,
                     positions |-> [s \in DOMAIN L.positions \ (IF keep THEN {} ELSE {symbol}) |->
                                      L.positions[s]],
                     trades    |-> Append(L.trades, <<"SELL", symbol, p, pos.qty, pnl>>)],
         ret |-> pnl]

\* sell recording a trade of quantity 0 when there is no position
sell_flat_records(L, symbol, p) ==
    IF symbol \notin DOMAIN L.positions
    THEN [ledger |-> [L EXCEPT !.trades = Append(@, <<"SELL", symbol, p, 0, IntRat(0)>>)],
          ret |-> IntRat(0)]
    ELSE Sold(L, symbol, p, p * L.positions[symbol].qty, FALSE)

\* sell crediting the unit price instead of price * qty
sell_credits_unit(L, symbol, p) ==
    IF symbol \notin DOMAIN L.positions
    THEN [ledger |-> L, ret |-> IntRat(0)]
    ELSE Sold(L, symbol, p, p, FALSE)

\* sell forgetting to delete the position
sell_keeps_position(L, symbol, p) ==
    IF symbol \notin DOMAIN L.positions
    THEN [ledger |-> L, ret |-> IntRat(0)]
    ELSE Sold(L, symbol, p, p * L.positions[symbol].qty, TRUE)

\* PaperBroker.sell: the ledger after the call and the returned pnl
sell(L, symbol, p) ==
    IF symbol \notin DOMAIN L.positions
    THEN [ledger |-> L, ret |-> IntRat(0)]
    ELSE LET pos == L.positions[symbol]
             \* (price - avg_price) * qty
             pnl == Rat((p * pos.avg_price.d - pos.avg_price.n) * pos.qty, pos.avg_price.d)
         IN  [ledger |-> [balance   |-> L.balance + p * pos.qty,
                          positions |-> [s \in DOMAIN L.positions \ {symbol} |-> L.positions[s]],
                          trades    |-> Append(L.trades, <<"SELL", symbol, p, pos.qty, pnl>>)],
              ret |-> pnl]

SetLedger(L) ==
    /\ balance' = L.balance
    /\ positions' = L.positions
    /\ trades' = L.trades

NoCall == [op |-> "none"]

\* the call that came before the one being recorded, without its own history
Before == [f \in DOMAIN last \ {"before"} |-> last[f]]

\* a client calls broker.buy(symbol, price, qty)
CallBuy ==
    /\ Len(trades) < MaxTrades
    /\ \E symbol \in Symbols, p \in Prices, qty \in Qtys :
          LET r == buy(Ledger, symbol, p, qty)
          IN  /\ SetLedger(r.ledger)
              /\ last' = [op |-> "buy", symbol |-> symbol, price |-> p, qty |-> qty,
                          pre |-> Ledger, ret |-> r.ret, before |-> Before]
    /\ UNCHANGED <<stratVars, btVars>>

\* a client calls broker.sell(symbol, price)
CallSell ==
    /\ Len(trades) < MaxTrades
    /\ \E symbol \in Symbols, p \in Prices :
          LET r == sell(Ledger, symbol, p)
          IN  /\ SetLedger(r.ledger)
              /\ last' = [op |-> "sell", symbol |-> symbol, price |-> p,
                          pre |-> Ledger, ret |-> r.ret, before |-> Before]
    /\ UNCHANGED <<stratVars, btVars>>

IdleStrategy ==
    /\ fast_period = 1
    /\ slow_period = 2
    /\ signal_history = <<>>

IdleBacktest ==
    /\ MODE = "NONE"
    /\ kill = FALSE
    /\ df = <<>>
    /\ i = 0
    /\ pc = "idle"
    /\ signal = "HOLD"
    /\ price = 0
    /\ stop_loss_percent = <<2, 100>>
    /\ take_profit_percent = <<4, 100>>
    /\ csv = <<>>
    /\ clock = 0
    /\ csv_timestamp = <<>>

InitLedger ==
    /\ initial_balance \in InitialBalances
    /\ balance = PaperBroker(initial_balance).balance
    /\ positions = PaperBroker(initial_balance).positions
    /\ trades = PaperBroker(initial_balance).trades
    /\ last = NoCall
    /\ IdleStrategy
    /\ IdleBacktest

NextLedger == CallBuy \/ CallSell

SpecLedger == InitLedger /\ [][NextLedger]_vars

---------------------------------------------------------------------------
(* SMACrossoverStrategy *)

MaxWindow == 4                      \* rows of a window handed to generate_signal
MaxHistory == 2                     \* generate_signal calls recorded in one exploration
Periods == {1, 2, 3}
WindowCloses == {1, 2, 3}

\* a table is its set of column names and the values of its price column, oldest first
Table(cols, rows) == [columns |-> cols, rows |-> rows]

RECURSIVE SeqsUpTo(_, _)
SeqsUpTo(S, n) ==
    IF n = 0 THEN {<<>>}
    ELSE LET shorter == SeqsUpTo(S, n - 1)
         IN  shorter \cup {Append(q, x) : q \in {r \in shorter : Len(r) = n - 1}, x \in S}

\* tables with a close column, and tables without one (their rows are never read)
Windows == {Table({"close"}, r) : r \in SeqsUpTo(WindowCloses, MaxWindow)}
               \cup {Table({"open"}, r) : r \in SeqsUpTo(WindowCloses, 1)}

\* BaseStrategy.validate_dataframe
validate_dataframe(table) == \A col \in {"close"} : col \in table.columns

NaN == [nan |-> TRUE]

RECURSIVE SumRows(_, _, _)
SumRows(rows, from, to) == IF from > to THEN 0 ELSE rows[to] + SumRows(rows, from, to - 1)

\* df["close"].rolling(n).mean() at row k (1-based): NaN until n rows are available
rolling_mean(rows, n, k) ==
    IF k < n THEN NaN
    ELSE [nan |-> FALSE, n |-> SumRows(rows, k - n + 1, k), d |-> n]

\* float comparisons: every comparison with NaN is false
Gt(a, b) == ~a.nan /\ ~b.nan /\ a.n * b.d > b.n * a.d
Lt(a, b) == ~a.nan /\ ~b.nan /\ a.n * b.d < b.n * a.d
Ge(a, b) == ~a.nan /\ ~b.nan /\ a.n * b.d >= b.n * a.d
Le(a, b) == ~a.nan /\ ~b.nan /\ a.n * b.d <= b.n * a.d

\* BaseStrategy.record_signal
record_signal(history, sig) == Append(history, sig)

\* a test of the present order alone: it signals at every row, not only at a cross
Crossover_level(fast_now, slow_now, fast_prev, slow_prev) ==
    IF Gt(fast_now, slow_now) THEN "BUY"
    ELSE IF Lt(fast_now, slow_now) THEN "SELL"
    ELSE "HOLD"

\* the crossover test on the four averages
Crossover(fast_now, slow_now, fast_prev, slow_prev) ==
    IF Gt(fast_now, slow_now) /\ Le(fast_prev, slow_prev) THEN "BUY"
    ELSE IF Lt(fast_now, slow_now) /\ Ge(fast_prev, slow_prev) THEN "SELL"
    ELSE "HOLD"

\* a crossover test that wants the previous averages strictly ordered
generate_signal_strict(table, fast, slow, history) ==
    IF ~validate_dataframe(table) \/ Len(table.rows) < slow + 1
    THEN [ret |-> "HOLD", history |-> history, df |-> table]
    ELSE LET n == Len(table.rows)
             fast_now == rolling_mean(table.rows, fast, n)
             slow_now == rolling_mean(table.rows, slow, n)
             fast_prev == rolling_mean(table.rows, fast, n - 1)
             slow_prev == rolling_mean(table.rows, slow, n - 1)
             sig == IF Gt(fast_now, slow_now) /\ Lt(fast_prev, slow_prev) THEN "BUY"
                    ELSE IF Lt(fast_now, slow_now) /\ Gt(fast_prev, slow_prev) THEN "SELL"
                    ELSE "HOLD"
         IN  [ret |-> sig, history |-> record_signal(history, sig), df |-> table]

\* df["fast"] = ..., df["slow"] = ...: the two columns are added to the table
with_averages(table) == [table EXCEPT !.columns = @ \cup {"fast", "slow"}]

\* a generate_signal that returns HOLD instead of repeating the signal it recorded last
generate_signal_no_repeat(table, fast, slow, history) ==
    IF ~validate_dataframe(table) \/ Len(table.rows) < slow + 1
    THEN [ret |-> "HOLD", history |-> history, df |-> table]
    ELSE LET n == Len(table.rows)
             sig == Crossover(rolling_mean(table.rows, fast, n), rolling_mean(table.rows, slow, n),
                              rolling_mean(table.rows, fast, n - 1),
                              rolling_mean(table.rows, slow, n - 1))
             out == IF history # <<>> /\ history[Len(history)] = sig THEN "HOLD" ELSE sig
         IN  [ret |-> out, history |-> record_signal(history, out), df |-> table]

\* SMACrossoverStrategy.generate_signal: the returned signal, the signal history and
\* the caller's table after the call (the averages go into the copy made by df.copy())
generate_signal(table, fast, slow, history) ==
    IF ~validate_dataframe(table)
    THEN [ret |-> "HOLD", history |-> history, df |-> table]
    ELSE LET copy == with_averages(table)
         IN  IF Len(copy.rows) < slow + 1
             THEN [ret |-> "HOLD", history |-> history, df |-> table]
             ELSE LET n == Len(copy.rows)
                      fast_now == rolling_mean(copy.rows, fast, n)
                      slow_now == rolling_mean(copy.rows, slow, n)
                      fast_prev == rolling_mean(copy.rows, fast, n - 1)
                      slow_prev == rolling_mean(copy.rows, slow, n - 1)
                      sig == Crossover(fast_now, slow_now, fast_prev, slow_prev)
                  IN  [ret |-> sig, history |-> record_signal(history, sig), df |-> table]

\* SMACrossoverStrategy.__init__: the periods are stored as given; nothing is raised
SMACrossoverStrategy(fast, slow) ==
    [fast_period |-> fast, slow_period |-> slow, signal_history |-> <<>>, raised |-> FALSE]

\* BaseStrategy.get_required_periods: the default of the base class
get_required_periods_base(slow) == 20

\* SMACrossoverStrategy.get_required_periods
get_required_periods(slow) == slow + 1

\* strategy.generate_signal(df) is called
CallGenerateSignal ==
    /\ Len(signal_history) < MaxHistory
    /\ \E table \in Windows :
          LET r == generate_signal(table, fast_period, slow_period, signal_history)
          IN  /\ signal_history' = r.history
              /\ last' = [op |-> "generate_signal", df |-> table, fast |-> fast_period,
                          slow |-> slow_period, ret |-> r.ret,
                          history |-> signal_history, after |-> r.df]
    /\ UNCHANGED <<fast_period, slow_period, ledgerVars, btVars>>

\* strategy.get_required_periods() is called
CallGetRequiredPeriods ==
    /\ last' = [op |-> "get_required_periods", slow |-> slow_period,
                ret |-> get_required_periods(slow_period)]
    /\ UNCHANGED <<stratVars, ledgerVars, btVars>>

\* the keyword arguments of a set_parameters call
Kwargs == UNION {[keys -> Periods] : keys \in SUBSET {"fast_period", "slow_period"}}

\* SMACrossoverStrategy.set_parameters: assign, then validate
CallSetParameters ==
    \E kwargs \in Kwargs :
        /\ fast_period' = IF "fast_period" \in DOMAIN kwargs THEN kwargs["fast_period"]
                          ELSE fast_period
        /\ slow_period' = IF "slow_period" \in DOMAIN kwargs THEN kwargs["slow_period"]
                          ELSE slow_period
        /\ last' = [op |-> "set_parameters", kwargs |-> kwargs,
                    fast |-> fast_period, slow |-> slow_period,
                    raised |-> (fast_period' >= slow_period')]
        /\ UNCHANGED <<signal_history, ledgerVars, btVars>>

IdleLedger ==
    /\ balance = 0
    /\ positions = NoPositions
    /\ trades = <<>>

\* SMACrossoverStrategy.__init__: any two periods, no validation
InitStrategy ==
    /\ fast_period \in Periods
    /\ slow_period \in Periods
    /\ signal_history = <<>>
    /\ last = NoCall
    /\ IdleLedger
    /\ initial_balance = 0
    /\ IdleBacktest

NextStrategy == CallGenerateSignal \/ CallGetRequiredPeriods \/ CallSetParameters

SpecStrategy == InitStrategy /\ [][NextStrategy]_vars

---------------------------------------------------------------------------
(* backtest: the replay loop with its stop-loss / take-profit check *)

MaxRows == 6                        \* rows of the historical table
SYMBOL == "X"
QTY == 10
Closes == {9800, 9801, 10000, 10400}
BacktestBalances == {150000, 1000000}
BacktestPeriods == {<<1, 2>>, <<2, 3>>, <<3, 2>>}   \* --fast / --slow as given
\* <<stop_loss_percent, take_profit_percent>>, each a fraction <<num, den>>
RiskSettings == {<<<<2, 100>>, <<4, 100>>>>, <<<<1, 10000>>, <<1, 10000>>>>}

\* log_trade_csv: one row appended to the trades CSV (pnl defaults to 0)
log_trade_csv(rows, action, symbol, p, qty, pnl) ==
    Append(rows, <<action, symbol, p, qty, pnl>>)

\* price <= pos_price * (1 - stop_loss_percent), with avg = n/d and sl = num/den
stop_loss_hit(p, avg, sl) == p * avg.d * sl[2] <= avg.n * (sl[2] - sl[1])

\* price >= pos_price * (1 + take_profit_percent)
take_profit_hit(p, avg, tp) == p * avg.d * tp[2] >= avg.n * (tp[2] + tp[1])

\* the check with strict comparisons
risk_action_strict(p, avg, sl, tp) ==
    IF p * avg.d * sl[2] < avg.n * (sl[2] - sl[1]) THEN "STOP-LOSS"
    ELSE IF p * avg.d * tp[2] > avg.n * (tp[2] + tp[1]) THEN "TAKE-PROFIT"
    ELSE "NONE"

\* backtest, the if / elif of the check: which exit, if any, is taken for one position
risk_action(p, avg, sl, tp) ==
    IF stop_loss_hit(p, avg, sl) THEN "STOP-LOSS"
    ELSE IF take_profit_hit(p, avg, tp) THEN "TAKE-PROFIT"
    ELSE "NONE"

\* a call of broker.sell made by the loop, as recorded in the calls of the step
SellCall(by, symbol, p, pre, ret) ==
    [op |-> "sell", by |-> by, symbol |-> symbol, price |-> p, pre |-> pre, ret |-> ret]

\* a call of broker.buy made by the loop
BuyCall(symbol, p, qty, pre, ret) ==
    [op |-> "buy", by |-> "BUY", symbol |-> symbol, price |-> p, qty |-> qty,
     pre |-> pre, ret |-> ret]

\* a check that logs its exits under the action SELL
backtest_check_position_logs_sell(W, pos_symbol, pos, p, sl, tp) ==
    LET action == risk_action(p, pos["avg_price"], sl, tp)
    IN  IF action = "NONE" THEN W
        ELSE LET r == sell(W.ledger, pos_symbol, p)
             IN  [ledger |-> r.ledger,
                  csv    |-> log_trade_csv(W.csv, "SELL", pos_symbol, p, pos["qty"], r.ret),
                  calls  |-> Append(W.calls, SellCall(action, pos_symbol, p, W.ledger, r.ret))]

\* backtest, the body of the check for one entry of list(broker.positions.items());
\* W carries the ledger, the CSV rows and the calls made so far in this step
backtest_check_position(W, pos_symbol, pos, p, sl, tp) ==
    LET action == risk_action(p, pos["avg_price"], sl, tp)
    IN  IF action = "NONE" THEN W
        ELSE LET r == sell(W.ledger, pos_symbol, p)
             IN  [ledger |-> r.ledger,
                  csv    |-> log_trade_csv(W.csv, action, pos_symbol, p, pos["qty"], r.ret),
                  calls  |-> Append(W.calls, SellCall(action, pos_symbol, p, W.ledger, r.ret))]

\* backtest, the for loop over the snapshot list(broker.positions.items())
RECURSIVE backtest_check_positions(_, _, _, _, _, _)
backtest_check_positions(W, todo, snapshot, p, sl, tp) ==
    IF todo = {} THEN W
    ELSE LET pos_symbol == CHOOSE x \in todo : TRUE
         IN  backtest_check_positions(
                 backtest_check_position(W, pos_symbol, snapshot[pos_symbol], p, sl, tp),
                 todo \ {pos_symbol}, snapshot, p, sl, tp)

\* backtest, "Stop-loss / take-profit check" of one step
backtest_sl_tp(W, p, sl, tp) ==
    backtest_check_positions(W, DOMAIN W.ledger.positions, W.ledger.positions, p, sl, tp)

\* a signal branch whose second arm is a plain else: it sells on HOLD as well
backtest_execute_sells_unless_buy(W, sig, p) ==
    IF sig = "BUY"
    THEN LET r == buy(W.ledger, SYMBOL, p, QTY)
         IN  [ledger |-> r.ledger,
              csv    |-> IF r.ret THEN log_trade_csv(W.csv, "BUY", SYMBOL, p, QTY, IntRat(0))
                         ELSE W.csv,
              calls  |-> Append(W.calls, BuyCall(SYMBOL, p, QTY, W.ledger, r.ret))]
    ELSE LET r == sell(W.ledger, SYMBOL, p)
         IN  [ledger |-> r.ledger,
              csv    |-> IF r.ret.n # 0 THEN log_trade_csv(W.csv, "SELL", SYMBOL, p, QTY, r.ret)
                         ELSE W.csv,
              calls  |-> Append(W.calls, SellCall("SELL", SYMBOL, p, W.ledger, r.ret))]

\* backtest, "Execute trade based on signal"
backtest_execute(W, sig, p) ==
    IF sig = "BUY"
    THEN LET r == buy(W.ledger, SYMBOL, p, QTY)
         IN  [ledger |-> r.ledger,
              csv    |-> IF r.ret THEN log_trade_csv(W.csv, "BUY", SYMBOL, p, QTY, IntRat(0))
                         ELSE W.csv,
              calls  |-> Append(W.calls, BuyCall(SYMBOL, p, QTY, W.ledger, r.ret))]
    ELSE IF sig = "SELL"
    THEN LET r == sell(W.ledger, SYMBOL, p)
         IN  [ledger |-> r.ledger,
              \* "if pnl:" is false for a pnl of 0
              csv    |-> IF r.ret.n # 0 THEN log_trade_csv(W.csv, "SELL", SYMBOL, p, QTY, r.ret)
                         ELSE W.csv,
              calls  |-> Append(W.calls, SellCall("SELL", SYMBOL, p, W.ledger, r.ret))]
    ELSE W

\* a loop body that trades on the signal before it checks the exits
backtest_trades_signal_first(W, sig, p, sl, tp) ==
    backtest_sl_tp(backtest_execute(W, sig, p), p, sl, tp)

\* a loop body in which a risk exit ends the step: the signal is dropped after it
backtest_trades_exit_ends_step(W, sig, p, sl, tp) ==
    LET X == backtest_sl_tp(W, p, sl, tp)
    IN  IF Len(X.calls) > Len(W.calls) THEN X ELSE backtest_execute(X, sig, p)

\* backtest, the ledger part of one loop body: the exits, then the trade of the signal
backtest_trades(W, sig, p, sl, tp) ==
    backtest_execute(backtest_sl_tp(W, p, sl, tp), sig, p)

\* the record of one loop iteration: the ledger and CSV it found and the calls it made
StepRecord(mode, W) == [op |-> "step", mode |-> mode, pre |-> Ledger, csv |-> csv, calls |-> W.calls]

\* the call of strategy.generate_signal that opens a loop body
SignalCall(window, ret) ==
    [op |-> "generate_signal", by |-> "loop", rows |-> Len(window.rows), ret |-> ret]

\* a window that also holds the row after the current one, where there is one
window_df_with_next_row(table, idx) ==
    Table(table.columns,
          SubSeq(table.rows, 1, IF idx + 2 <= Len(table.rows) THEN idx + 2 ELSE idx + 1))

\* window_df = df.iloc[:i+1]: the rows 0..i of the table
window_df(table, idx) == Table(table.columns, SubSeq(table.rows, 1, idx + 1))

\* an iteration that ends the loop when the broker rejects the buy
BacktestIteration_stops_on_rejected_buy ==
    /\ MODE = "BACKTEST"
    /\ pc = "loop"
    /\ i < Len(df.rows)
    /\ LET window == window_df(df, i)
           g == generate_signal(window, fast_period, slow_period, signal_history)
           p == window.rows[Len(window.rows)]
           W == backtest_trades([ledger |-> Ledger, csv |-> csv,
                                 calls |-> <<SignalCall(window, g.ret)>>],
                                g.ret, p, stop_loss_percent, take_profit_percent)
       IN  /\ signal' = g.ret
           /\ signal_history' = g.history
           /\ price' = p
           /\ SetLedger(W.ledger)
           /\ csv' = W.csv
           /\ last' = StepRecord(MODE, W)
           /\ pc' = IF \E k \in 1..Len(W.calls) : W.calls[k].op = "buy" /\ ~W.calls[k].ret
                    THEN "done" ELSE pc
    /\ i' = i + 1
    /\ UNCHANGED <<MODE, df, kill, fast_period, slow_period,
                   stop_loss_percent, take_profit_percent, initial_balance>>

\* backtest, one iteration of "for i in range(min_periods, len(df))", the timestamp
\* column of the CSV left aside
BacktestIteration ==
    /\ MODE = "BACKTEST"
    /\ pc = "loop"
    /\ i < Len(df.rows)
    /\ LET window == window_df(df, i)
           g == generate_signal(window, fast_period, slow_period, signal_history)
           p == window.rows[Len(window.rows)]
           W == backtest_trades([ledger |-> Ledger, csv |-> csv,
                                 calls |-> <<SignalCall(window, g.ret)>>],
                                g.ret, p, stop_loss_percent, take_profit_percent)
       IN  /\ signal' = g.ret
           /\ signal_history' = g.history
           /\ price' = p
           /\ SetLedger(W.ledger)
           /\ csv' = W.csv
           /\ last' = StepRecord(MODE, W)
    /\ i' = i + 1
    /\ UNCHANGED <<MODE, df, pc, kill, fast_period, slow_period,
                   stop_loss_percent, take_profit_percent, initial_balance>>

\* backtest, one iteration of the loop
BacktestStep == BacktestIteration /\ UNCHANGED timeVars

\* backtest, the table is exhausted: the loop ends and backtest returns the broker
BacktestReturn ==
    /\ MODE = "BACKTEST"
    /\ pc = "loop"
    /\ i >= Len(df.rows)
    /\ pc' = "done"
    /\ UNCHANGED <<ledgerVars, stratVars, last, MODE, df, i, kill, signal, price,
                   stop_loss_percent, take_profit_percent, csv, initial_balance, timeVars>>

\* main.py in BACKTEST mode: backtest(df, strategy, initial_balance, symbol, qty,
\* stop_loss_percent, take_profit_percent) up to the first iteration
InitBacktest ==
    /\ MODE = "BACKTEST"
    \* get_strategy(...): a ValueError ends the program before any run
    /\ \E fs \in BacktestPeriods :
          LET strategy == SMACrossoverStrategy(fs[1], fs[2])
          IN  /\ ~strategy.raised
              /\ fast_period = strategy.fast_period
              /\ slow_period = strategy.slow_period
              /\ signal_history = strategy.signal_history
    /\ df \in {Table({"close"}, r) : r \in SeqsUpTo(Closes, MaxRows)}
    /\ \E risk \in RiskSettings :
          stop_loss_percent = risk[1] /\ take_profit_percent = risk[2]
    /\ initial_balance \in BacktestBalances
    /\ balance = PaperBroker(initial_balance).balance
    /\ positions = PaperBroker(initial_balance).positions
    /\ trades = PaperBroker(initial_balance).trades
    /\ clock = 0
    /\ csv_timestamp = <<>>
    /\ i = get_required_periods(slow_period)
    /\ pc = "loop"
    /\ kill = FALSE
    /\ signal = "HOLD"
    /\ price = 0
    /\ csv = <<>>
    /\ last = NoCall

NextBacktest == BacktestStep \/ BacktestReturn

SpecBacktest == InitBacktest /\ [][NextBacktest]_vars

---------------------------------------------------------------------------
(* main.py in LIVE mode: the polling loop *)

MaxLiveRows == 3                    \* rows of a table returned by the data source
MaxLiveSignals == 3                 \* signals recorded by the strategy in one exploration
LivePeriods == {<<1, 2>>}
LiveBalances == {250000}

\* what data_source.get_historical_data returns when it returns rows
LiveCloses == {9800, 10000, 10100}
LiveTables == {Table({"close"}, r) : r \in SeqsUpTo(LiveCloses, MaxLiveRows) \ {<<>>}}

\* check_sl_tp with strict comparisons
live_risk_action_strict(p, avg_price, sl, tp) ==
    IF p * avg_price.d * sl[2] < avg_price.n * (sl[2] - sl[1]) THEN "STOP-LOSS"
    ELSE IF p * avg_price.d * tp[2] > avg_price.n * (tp[2] + tp[1]) THEN "TAKE-PROFIT"
    ELSE "NONE"

\* check_sl_tp, the if / elif: which exit, if any, is taken for one position
live_risk_action(p, avg_price, sl, tp) ==
    IF stop_loss_hit(p, avg_price, sl) THEN "STOP-LOSS"
    ELSE IF take_profit_hit(p, avg_price, tp) THEN "TAKE-PROFIT"
    ELSE "NONE"

\* check_sl_tp, the loop body for one entry of list(broker.positions.items())
live_check_position(W, pos_symbol, pos, p, sl, tp) ==
    LET avg_price == pos["avg_price"]
        qty == pos["qty"]
        action == live_risk_action(p, avg_price, sl, tp)
    IN  IF action = "NONE" THEN W
        ELSE LET r == sell(W.ledger, pos_symbol, p)
             IN  [ledger |-> r.ledger,
                  csv    |-> log_trade_csv(W.csv, action, pos_symbol, p, qty, r.ret),
                  calls  |-> Append(W.calls, SellCall(action, pos_symbol, p, W.ledger, r.ret))]

RECURSIVE live_check_positions(_, _, _, _, _, _)
live_check_positions(W, todo, snapshot, p, sl, tp) ==
    IF todo = {} THEN W
    ELSE LET pos_symbol == CHOOSE x \in todo : TRUE
         IN  live_check_positions(
                 live_check_position(W, pos_symbol, snapshot[pos_symbol], p, sl, tp),
                 todo \ {pos_symbol}, snapshot, p, sl, tp)

\* check_sl_tp(price)
check_sl_tp(W, p, sl, tp) ==
    live_check_positions(W, DOMAIN W.ledger.positions, W.ledger.positions, p, sl, tp)

\* live loop, "Execute trade"
live_execute(W, sig, p) ==
    IF sig = "BUY"
    THEN LET r == buy(W.ledger, SYMBOL, p, QTY)
         IN  [ledger |-> r.ledger,
              csv    |-> IF r.ret THEN log_trade_csv(W.csv, "BUY", SYMBOL, p, QTY, IntRat(0))
                         ELSE W.csv,
              calls  |-> Append(W.calls, BuyCall(SYMBOL, p, QTY, W.ledger, r.ret))]
    ELSE IF sig = "SELL"
    THEN LET r == sell(W.ledger, SYMBOL, p)
         IN  [ledger |-> r.ledger,
              csv    |-> IF r.ret.n # 0 THEN log_trade_csv(W.csv, "SELL", SYMBOL, p, QTY, r.ret)
                         ELSE W.csv,
              calls  |-> Append(W.calls, SellCall("SELL", SYMBOL, p, W.ledger, r.ret))]
    ELSE W

\* a live iteration that trades on the signal before it checks the exits
live_trades_signal_first(W, sig, p, sl, tp) ==
    check_sl_tp(live_execute(W, sig, p), p, sl, tp)

\* live loop, the ledger part of one iteration: check_sl_tp, then the trade of the signal
live_trades(W, sig, p, sl, tp) ==
    live_execute(check_sl_tp(W, p, sl, tp), sig, p)

\* an exit that closes the open positions on its way out
LiveStop_flattens ==
    /\ MODE = "LIVE"
    /\ pc = "loop"
    /\ kill
    /\ pc' = "stopped"
    /\ positions' = NoPositions
    /\ UNCHANGED <<balance, trades, stratVars, last, MODE, kill, df, i, signal, price,
                   stop_loss_percent, take_profit_percent, csv, initial_balance, timeVars>>

\* a loop that looks for the kill switch only after an iteration that fetched data
LiveStop_after_data ==
    /\ MODE = "LIVE"
    /\ pc = "loop"
    /\ kill
    /\ last.op = "step"
    /\ pc' = "stopped"
    /\ UNCHANGED <<ledgerVars, stratVars, last, MODE, kill, df, i, signal, price,
                   stop_loss_percent, take_profit_percent, csv, initial_balance, timeVars>>

\* live loop: the kill switch is found at the top of an iteration
LiveStop ==
    /\ MODE = "LIVE"
    /\ pc = "loop"
    /\ kill
    /\ pc' = "stopped"
    /\ UNCHANGED <<ledgerVars, stratVars, last, MODE, kill, df, i, signal, price,
                   stop_loss_percent, take_profit_percent, csv, initial_balance, timeVars>>

\* a fetch whose exception is not caught: it ends the loop
LiveRetry_uncaught ==
    /\ MODE = "LIVE"
    /\ pc = "loop"
    /\ ~kill
    /\ \E why \in {"raised", "empty"} :
          /\ last' = [op |-> "retry", why |-> why, pre |-> Ledger, csv |-> csv]
          /\ pc' = IF why = "raised" THEN "stopped" ELSE pc
    /\ UNCHANGED <<ledgerVars, stratVars, MODE, kill, df, i, signal, price,
                   stop_loss_percent, take_profit_percent, csv, initial_balance, timeVars>>

\* live loop: the fetch raises, or returns an empty table; sleep and continue
LiveRetry ==
    /\ MODE = "LIVE"
    /\ pc = "loop"
    /\ ~kill
    /\ \E why \in {"raised", "empty"} :
          last' = [op |-> "retry", why |-> why, pre |-> Ledger, csv |-> csv]
    /\ UNCHANGED <<ledgerVars, stratVars, btVars>>

\* live loop: one full iteration on a fetched table
LiveIteration ==
    /\ MODE = "LIVE"
    /\ pc = "loop"
    /\ ~kill
    /\ Len(signal_history) < MaxLiveSignals
    /\ \E df_live \in LiveTables :
          LET g == generate_signal(df_live, fast_period, slow_period, signal_history)
              p == df_live.rows[Len(df_live.rows)]
              W == live_trades([ledger |-> Ledger, csv |-> csv,
                                calls |-> <<SignalCall(df_live, g.ret)>>],
                               g.ret, p, stop_loss_percent, take_profit_percent)
          IN  /\ signal' = g.ret
              /\ signal_history' = g.history
              /\ price' = p
              /\ SetLedger(W.ledger)
              /\ csv' = W.csv
              /\ last' = StepRecord(MODE, W)
    /\ UNCHANGED <<MODE, kill, df, i, pc, fast_period, slow_period,
                   stop_loss_percent, take_profit_percent, initial_balance, timeVars>>

\* the operator creates the kill-switch file
KillSwitch ==
    /\ MODE = "LIVE"
    /\ pc = "loop"
    /\ ~kill
    /\ kill' = TRUE
    /\ UNCHANGED <<ledgerVars, stratVars, last, MODE, df, i, pc, signal, price,
                   stop_loss_percent, take_profit_percent, csv, initial_balance, timeVars>>

\* main.py in LIVE mode up to the first iteration
InitLive ==
    /\ MODE = "LIVE"
    \* get_strategy(...): a ValueError ends the program before any run
    /\ \E fs \in LivePeriods :
          LET strategy == SMACrossoverStrategy(fs[1], fs[2])
          IN  /\ ~strategy.raised
              /\ fast_period = strategy.fast_period
              /\ slow_period = strategy.slow_period
              /\ signal_history = strategy.signal_history
    /\ df = Table({"close"}, <<>>)
    /\ \E risk \in RiskSettings :
          stop_loss_percent = risk[1] /\ take_profit_percent = risk[2]
    /\ initial_balance \in LiveBalances
    /\ balance = PaperBroker(initial_balance).balance
    /\ positions = PaperBroker(initial_balance).positions
    /\ trades = PaperBroker(initial_balance).trades
    /\ clock = 0
    /\ csv_timestamp = <<>>
    /\ i = 0
    /\ pc = "loop"
    /\ kill \in BOOLEAN
    /\ signal = "HOLD"
    /\ price = 0
    /\ csv = <<>>
    /\ last = NoCall

NextLive == LiveStop \/ LiveRetry \/ LiveIteration \/ KillSwitch

SpecLive == InitLive /\ [][NextLive]_vars

\* the live loop when every fetch and every sleep returns: "while True" comes back to
\* the kill-switch check at its top
FairSpecLive == SpecLive /\ WF_vars(LiveStop)

---------------------------------------------------------------------------
(* backtester.py: the backtest with the timestamp column of the trades CSV.  Each   *)
(* call of log_trade_csv reads datetime.now(), the wall clock of the machine: a     *)
(* reading is never modelled as earlier than the one before it, and it is equal to  *)
(* it when the clock has not advanced between the two calls.                        *)

\* how far the clock can have advanced between two readings, in units of its resolution
ClockAdvances == {0, 1}

\* the settings of the runs that are followed with their timestamps
ClockedPeriods == <<1, 2>>
ClockedStopLoss == <<2, 100>>
ClockedTakeProfit == <<4, 100>>

\* datetime.now() at the k-th of the calls of one step, the clock having advanced by
\* advance[j] before the j-th
RECURSIVE datetime_now(_, _, _)
datetime_now(previous, advance, k) ==
    IF k = 0 THEN previous ELSE datetime_now(previous, advance, k - 1) + advance[k]

\* log_trade_csv, the "timestamp" entry of each row written by one step
StampRows ==
    LET n == Len(csv') - Len(csv)
    IN  \E advance \in [1..n -> ClockAdvances] :
            /\ csv_timestamp' = csv_timestamp \o [k \in 1..n |-> datetime_now(clock, advance, k)]
            /\ clock' = datetime_now(clock, advance, n)

\* backtest, one iteration of the loop, its rows stamped
ClockedBacktestStep == BacktestIteration /\ StampRows

InitClocked ==
    /\ InitBacktest
    /\ <<fast_period, slow_period>> = ClockedPeriods
    /\ stop_loss_percent = ClockedStopLoss
    /\ take_profit_percent = ClockedTakeProfit

NextClocked == ClockedBacktestStep \/ BacktestReturn

SpecClocked == InitClocked /\ [][NextClocked]_vars

---------------------------------------------------------------------------
(* main.py: either mode *)

Init == InitBacktest \/ InitLive

Next == NextBacktest \/ NextLive

Spec == Init /\ [][Next]_vars

---------------------------------------------------------------------------
(* Claims about the ledger, checked under SpecLedger *)

\* C1: for every sequence of buy and sell calls with price > 0 and qty > 0 from a
\* non-negative initial balance, cash_balance >= 0 in every reachable ledger state.
C1_BalanceNonNegative == balance >= 0

\* a buy has spent the whole balance after earlier trades
C1_Witness == last.op = "buy" /\ last.ret /\ balance = 0 /\ Len(trades) >= 3

\* C2: buy succeeds iff price*qty <= cash_balance (a buy costing exactly the balance
\* succeeds and leaves 0); a rejected buy leaves balance, positions and trades unchanged.
C2_BuyIffAffordable ==
    last.op = "buy" =>
        /\ last.ret = (last.price * last.qty <= last.pre.balance)
        /\ (last.price * last.qty = last.pre.balance => balance = 0)
        /\ (~last.ret => Ledger = last.pre)

\* a buy was rejected on a ledger that holds a position and a history
C2_Witness ==
    /\ last.op = "buy" /\ ~last.ret
    /\ last.price * last.qty > last.pre.balance
    /\ DOMAIN positions # {} /\ trades # <<>>

\* C3: sell on a symbol with no open position returns pnl 0 and leaves balance,
\* positions and trades unchanged, also right after that symbol was closed.
C3_SellFlatIsNoOp ==
    (last.op = "sell" /\ last.symbol \notin DOMAIN last.pre.positions) =>
        /\ last.ret = IntRat(0)
        /\ Ledger = last.pre

\* a sell of a symbol whose position the previous call has just closed
C3_Witness ==
    /\ last.op = "sell" /\ last.symbol \notin DOMAIN last.pre.positions
    /\ last.before.op = "sell" /\ last.before.symbol = last.symbol
    /\ last.before.symbol \in DOMAIN last.before.pre.positions

\* C4: sell on an open position (q, a) returns pnl = (price - a) * q, adds exactly
\* price * q to the balance, removes the whole position and appends exactly one
\* closing record carrying that pnl; balance 100000, buy(X,100,10), sell(X,120)
\* gives 99000, then pnl 200 and balance 100200 with no position left.
C4_SellClosesWholePosition ==
    (last.op = "sell" /\ last.symbol \in DOMAIN last.pre.positions) =>
        LET pos == last.pre.positions[last.symbol]
            rec == trades[Len(trades)]
        IN  /\ last.ret.n * pos.avg_price.d
                 = (last.price * pos.avg_price.d - pos.avg_price.n) * pos.qty * last.ret.d
            /\ last.ret.d > 0
            /\ balance = last.pre.balance + last.price * pos.qty
            /\ DOMAIN positions = DOMAIN last.pre.positions \ {last.symbol}
            /\ \A s \in DOMAIN positions : positions[s] = last.pre.positions[s]
            /\ Len(trades) = Len(last.pre.trades) + 1
            /\ SubSeq(trades, 1, Len(trades) - 1) = last.pre.trades
            /\ rec[1] = "SELL" /\ rec[2] = last.symbol /\ rec[3] = last.price
            /\ rec[4] = pos.qty /\ rec[5] = last.ret
            /\ (/\ last.pre.balance = 99000 /\ last.price = 120
                /\ pos = [qty |-> 10, avg_price |-> IntRat(100)])
               => (last.ret = IntRat(200) /\ balance = 100200)

\* the example: from 100000, buy(X,100,10) then sell(X,120)
C4_Witness ==
    /\ last.op = "sell" /\ last.symbol = "X" /\ last.price = 120
    /\ last.before.op = "buy" /\ last.before.pre = PaperBroker(100000)
    /\ last.before.symbol = "X" /\ last.before.price = 100 /\ last.before.qty = 10
    /\ last.pre.balance = 99000
    /\ last.ret = IntRat(200) /\ balance = 100200 /\ DOMAIN positions = {}

\* the BUY records of a symbol that follow its last SELL record
RECURSIVE BuysSinceSell(_, _)
BuysSinceSell(ts, symbol) ==
    IF ts = <<>> THEN <<>>
    ELSE LET rec == ts[Len(ts)]
             front == SubSeq(ts, 1, Len(ts) - 1)
         IN  IF rec[2] # symbol THEN BuysSinceSell(front, symbol)
             ELSE IF rec[1] = "SELL" THEN <<>>
             ELSE Append(BuysSinceSell(front, symbol), rec)

RECURSIVE SumQty(_)
SumQty(recs) == IF recs = <<>> THEN 0 ELSE recs[1][4] + SumQty(Tail(recs))

RECURSIVE SumCost(_)
SumCost(recs) == IF recs = <<>> THEN 0 ELSE recs[1][3] * recs[1][4] + SumCost(Tail(recs))

\* C5: after any sequence of successful buys of a symbol since its last sell, the
\* position's quantity is the sum of the bought quantities and avg_price * quantity
\* is the sum of price_i * qty_i over exactly those buys; earlier buys have no influence.
C5_VolumeWeightedAverage ==
    \A s \in Symbols :
        LET recs == BuysSinceSell(trades, s)
        IN  /\ (s \in DOMAIN positions) = (recs # <<>>)
            /\ s \in DOMAIN positions =>
                  /\ positions[s].qty = SumQty(recs)
                  /\ positions[s].avg_price.n * positions[s].qty
                        = SumCost(recs) * positions[s].avg_price.d

\* a position built by buys at two prices and quantities after a sell of that symbol
C5_Witness ==
    \E s \in Symbols :
        LET recs == BuysSinceSell(trades, s)
        IN  /\ Len(recs) >= 2
            /\ recs[1][3] # recs[2][3] /\ recs[1][4] # recs[2][4]
            /\ \E k \in 1..Len(trades) : trades[k][1] = "SELL" /\ trades[k][2] = s
            /\ positions[s].avg_price.d > 1

\* C6: from any ledger state in which the symbol is flat and the buy is affordable,
\* buy(symbol, p, qty) immediately followed by sell(symbol, p) returns pnl 0,
\* restores the balance to its pre-buy value and leaves the symbol flat.
C6_RoundTrip ==
    (/\ last.op = "sell"
     /\ last.before.op = "buy" /\ last.before.ret
     /\ last.before.symbol = last.symbol /\ last.before.price = last.price
     /\ last.symbol \notin DOMAIN last.before.pre.positions) =>
        /\ last.ret = IntRat(0)
        /\ balance = last.before.pre.balance
        /\ last.symbol \notin DOMAIN positions
        /\ positions = last.before.pre.positions

\* a round trip of 10 units made while another position is open
C6_Witness ==
    /\ last.op = "sell"
    /\ last.before.op = "buy" /\ last.before.ret /\ last.before.qty = 10
    /\ last.before.symbol = last.symbol /\ last.before.price = last.price
    /\ last.symbol \notin DOMAIN last.before.pre.positions
    /\ DOMAIN last.before.pre.positions # {}

---------------------------------------------------------------------------
(* Claims about the SMA crossover strategy, checked under SpecStrategy *)

\* the sum of the n closes that end at row t (1-based)
TrailingSum(rows, n, t) == SumRows(rows, t - n + 1, t)

\* fast[t] - slow[t] as an integer of the same sign: both sums brought to one denominator
FastMinusSlow(rows, fast, slow, t) ==
    TrailingSum(rows, fast, t) * slow - TrailingSum(rows, slow, t) * fast

\* the window of the last generate_signal call has slow_period + 1 rows or more and
\* both trailing means exist at its last two rows
C9_Applies ==
    /\ last.op = "generate_signal"
    /\ "close" \in last.df.columns
    /\ Len(last.df.rows) >= last.slow + 1
    /\ Len(last.df.rows) >= last.fast + 1

\* C9: for a window of at least slow_period+1 rows, generate_signal returns BUY iff
\* fast[t] > slow[t] and fast[t-1] <= slow[t-1], SELL iff fast[t] < slow[t] and
\* fast[t-1] >= slow[t-1], HOLD in every other case (ties at t included); the BUY and
\* SELL conditions never hold together.
C9_CrossoverSignal ==
    C9_Applies =>
        LET t == Len(last.df.rows)
            now == FastMinusSlow(last.df.rows, last.fast, last.slow, t)
            prev == FastMinusSlow(last.df.rows, last.fast, last.slow, t - 1)
            isBuy == now > 0 /\ prev <= 0
            isSell == now < 0 /\ prev >= 0
        IN  /\ (last.ret = "BUY") = isBuy
            /\ (last.ret = "SELL") = isSell
            /\ (last.ret = "HOLD") = (~isBuy /\ ~isSell)
            /\ ~(isBuy /\ isSell)
            /\ now = 0 => last.ret = "HOLD"

\* a BUY returned for a window whose previous averages were exactly equal
C9_Witness ==
    /\ C9_Applies
    /\ last.fast < last.slow
    /\ last.ret = "BUY"
    /\ FastMinusSlow(last.df.rows, last.fast, last.slow, Len(last.df.rows) - 1) = 0

\* C10: generate_signal returns HOLD for every window with fewer than
\* required_warmup_periods() rows, and get_required_periods() always equals
\* slow_period + 1 for the strategy's current slow_period.
C10_WarmupHold ==
    /\ (last.op = "generate_signal" /\ Len(last.df.rows) < get_required_periods(last.slow))
          => last.ret = "HOLD"
    /\ last.op = "get_required_periods" =>
          /\ last.ret = last.slow + 1
          /\ last.slow = slow_period

\* a window of exactly slow_period rows, moving enough to cross, got HOLD after the
\* periods were reconfigured
C10_Witness ==
    /\ last.op = "generate_signal"
    /\ "close" \in last.df.columns
    /\ last.slow = 3 /\ last.fast = 1
    /\ Len(last.df.rows) = last.slow
    /\ last.df.rows[3] > last.df.rows[2]
    /\ last.ret = "HOLD"
    /\ signal_history # <<>>

---------------------------------------------------------------------------
(* Claims about the replay loops, checked under Spec (backtest and live) *)

RiskTags == {"STOP-LOSS", "TAKE-PROFIT"}

\* the CSV rows and the ledger records written by the last step
StepRows == SubSeq(csv, Len(last.csv) + 1, Len(csv))
StepTrades == SubSeq(trades, Len(last.pre.trades) + 1, Len(trades))

\* the calls of the last step that the risk guard made to close symbol s as tag
RiskCalls(s, tag) ==
    {k \in 1..Len(last.calls) :
        last.calls[k].op = "sell" /\ last.calls[k].by = tag /\ last.calls[k].symbol = s}

\* p <= e * (1 - sl) and p >= e * (1 + tp) for e = n/d, sl = sl[1]/sl[2], tp = tp[1]/tp[2]
AtOrBelowStop(p, e, sl) == p * e.d * sl[2] + e.n * sl[1] <= e.n * sl[2]
AtOrAboveTarget(p, e, tp) == p * e.d * tp[2] >= e.n * tp[2] + e.n * tp[1]

\* C7: for an open position with entry price e > 0 and a step's close p, the risk
\* guard closes it as STOP-LOSS iff p <= e*(1-sl), as TAKE-PROFIT iff p >= e*(1+tp) and
\* the stop-loss condition does not hold; for 0 < sl, tp < 1 the two conditions never
\* hold together, so at most one fires per position per step (sl = 0.02, e = 100.00:
\* fires at 98.00, not at 98.01; prices are in hundredths).
C7_RiskGuardFires ==
    last.op = "step" =>
        \A s \in DOMAIN last.pre.positions :
            LET e == last.pre.positions[s].avg_price
                stop == AtOrBelowStop(price, e, stop_loss_percent)
                target == AtOrAboveTarget(price, e, take_profit_percent)
                sl == RiskCalls(s, "STOP-LOSS")
                tp == RiskCalls(s, "TAKE-PROFIT")
            IN  /\ e.n > 0 /\ e.d > 0
                /\ (sl # {}) = stop
                /\ (tp # {}) = (target /\ ~stop)
                /\ ~(stop /\ target)
                /\ Cardinality(sl \cup tp) <= 1
                /\ \A k \in sl \cup tp :
                      /\ s \in DOMAIN last.calls[k].pre.positions
                      /\ last.calls[k].price = price
                      /\ \E r \in 1..Len(StepRows) :
                            /\ StepRows[r][1] = last.calls[k].by
                            /\ StepRows[r][2] = s /\ StepRows[r][3] = price
                /\ (stop_loss_percent = <<2, 100>> /\ e = IntRat(10000))
                      => ((sl # {}) = (price <= 9800))

\* a position entered at 100.00 is closed as STOP-LOSS by a close of exactly 98.00
C7_Witness ==
    /\ last.op = "step"
    /\ stop_loss_percent = <<2, 100>>
    /\ price = 9800
    /\ SYMBOL \in DOMAIN last.pre.positions
    /\ last.pre.positions[SYMBOL].avg_price = IntRat(10000)
    /\ RiskCalls(SYMBOL, "STOP-LOSS") # {}
    /\ SYMBOL \notin DOMAIN positions

\* C8: in every step a risk-guard close is applied to the ledger before the ledger
\* operation chosen by the signal: the signal-driven buy or sell operates on the ledger
\* left by the exit, and within a step a risk-exit record precedes that step's
\* signal-driven record in the trade history.
C8_ExitBeforeSignalTrade ==
    last.op = "step" =>
        LET calls == last.calls
            exits == {k \in 1..Len(calls) : calls[k].op = "sell" /\ calls[k].by \in RiskTags}
            driven == {k \in 1..Len(calls) : calls[k].op \in {"buy", "sell"}
                                                /\ calls[k].by \in {"BUY", "SELL"}}
        IN  /\ \A x \in exits, k \in driven : x < k
            /\ \A k \in driven :
                  \* the ledger the signal's call found: every due exit is already in it
                  /\ Len(calls[k].pre.trades) = Len(last.pre.trades) + Cardinality(exits)
                  /\ \A x \in exits : calls[x].symbol \notin DOMAIN calls[k].pre.positions
                  /\ \A s \in DOMAIN calls[k].pre.positions :
                        LET e == calls[k].pre.positions[s].avg_price
                        IN  /\ ~AtOrBelowStop(price, e, stop_loss_percent)
                            /\ ~AtOrAboveTarget(price, e, take_profit_percent)
            /\ \A a, b \in 1..Len(StepRows) :
                  (a < b /\ StepRows[a][1] \in {"BUY", "SELL"}) => StepRows[b][1] \notin RiskTags
            /\ \A a, b \in 1..Len(StepTrades) :
                  (a < b /\ StepTrades[a][1] = "BUY") => StepTrades[b][1] # "SELL"

\* a step in which the guard closed the position and the signal then bought again
C8_Witness ==
    /\ last.op = "step"
    /\ Len(StepRows) = 2
    /\ StepRows[1][1] \in RiskTags /\ StepRows[2][1] = "BUY"
    /\ Len(StepTrades) = 2
    /\ StepTrades[1][1] = "SELL" /\ StepTrades[2][1] = "BUY"
    /\ signal = "BUY"

(***************************************************************************)
(* Claims about starting a run (under Spec)                                *)
(***************************************************************************)

\* C11: a strategy with fast_period >= slow_period is never constructed, construction
\* failing with a configuration error, so that no backtest or live run ever starts
\* with fast_period >= slow_period.
C11_NoRunWithInvalidPeriods ==
    MODE \in {"BACKTEST", "LIVE"} => fast_period < slow_period

(***************************************************************************)
(* Claims about the backtest loop (under SpecBacktest)                     *)
(***************************************************************************)

\* the ledger, the CSV rows and the strategy's history after the steps up to t of a
\* backtest, with the configuration of the current run, over a table that consists
\* of the rows `prefix` and nothing else
RECURSIVE ReplayOnPrefix(_, _)
ReplayOnPrefix(prefix, t) ==
    IF t < get_required_periods(slow_period)
    THEN [ledger |-> PaperBroker(initial_balance), csv |-> <<>>, history |-> <<>>]
    ELSE LET S == ReplayOnPrefix(prefix, t - 1)
             window == window_df(Table({"close"}, prefix), t)
             g == generate_signal(window, fast_period, slow_period, S.history)
             W == backtest_trades([ledger |-> S.ledger, csv |-> S.csv, calls |-> <<>>],
                                  g.ret, window.rows[Len(window.rows)],
                                  stop_loss_percent, take_profit_percent)
         IN  [ledger |-> W.ledger, csv |-> W.csv, history |-> g.history]

\* C12: no look-ahead: after step t of a backtest the balance, the positions and the
\* trade history (and the rows logged) are those of a backtest with the same
\* configuration over the rows 0..t alone, so they are the same for any two tables
\* that agree on the rows 0..t, whatever rows follow.
C12_NoLookAhead ==
    (MODE = "BACKTEST" /\ last.op = "step") =>
        LET t == i - 1
            S == ReplayOnPrefix(SubSeq(df.rows, 1, t + 1), t)
        IN  /\ Ledger = S.ledger
            /\ csv = S.csv
            /\ signal_history = S.history

\* a step that traded while the table still has a later row with another close
C12_Witness ==
    /\ MODE = "BACKTEST" /\ last.op = "step"
    /\ Len(last.calls) >= 2
    /\ i < Len(df.rows)
    /\ df.rows[i + 1] # price
    /\ Len(trades) >= 2


\* the steps run so far, one record_signal per call of generate_signal in the loop
StepsRun == Len(signal_history)

\* the loop's position: the steps w..i-1 are done, each once, the last one being i-1,
\* and i never passes the end of the table
C13_StepsInOrder ==
    MODE = "BACKTEST" =>
        LET w == get_required_periods(slow_period)
            N == Len(df.rows)
        IN  /\ i >= w
            /\ pc \in {"loop", "done"}
            /\ i <= (IF N > w THEN N ELSE w)
            /\ StepsRun = i - w
            /\ (last.op = "step") => (i > w /\ i <= N /\ last.calls[1].rows = i)
            /\ (last.op # "step") => (i = w)
            /\ (pc = "done") => i = (IF N > w THEN N ELSE w)
            /\ (pc = "done" /\ N <= w) => (Ledger = PaperBroker(initial_balance) /\ csv = <<>>)

\* what one transition of the loop does: a step, which takes the next index and leaves
\* the loop running, or the return, which changes nothing of the ledger
C13_OneStepOrReturn ==
    /\ (last' # last \/ i' # i) =>
          (i' = i + 1 /\ i < Len(df.rows) /\ last'.op = "step" /\ pc' = "loop")
    /\ (pc' # pc) => (pc' = "done" /\ i >= Len(df.rows) /\ UNCHANGED <<ledgerVars, csv>>)

\* C13: for a table of N rows and warm-up w the backtest processes the steps
\* t = w, ..., N-1 exactly once each in increasing order and then returns the ledger:
\* every step raises i by one towards N and leaves the loop running, also on a rejected
\* buy or a no-op sell, and the loop returns exactly when i has reached N; with N <= w
\* no step runs and the returned ledger is the initial one.
C13_BacktestTerminates == []C13_StepsInOrder /\ [][C13_OneStepOrReturn]_vars

\* a finished backtest of at least three steps whose last step had its buy rejected
C13_Witness ==
    /\ MODE = "BACKTEST" /\ pc = "done"
    /\ StepsRun >= 3
    /\ i = Len(df.rows)
    /\ \E k \in 1..Len(last.calls) : last.calls[k].op = "buy" /\ ~last.calls[k].ret


(***************************************************************************)
(* Claims about one step of either loop, continued (under Spec)            *)
(***************************************************************************)

\* the positions in last.calls of the ledger calls made for the signal
SignalDriven == {k \in 1..Len(last.calls) : last.calls[k].op \in {"buy", "sell"}
                                               /\ last.calls[k].by \in {"BUY", "SELL"}}

\* the positions in last.calls of the sells made by the risk guard
RiskExits == {k \in 1..Len(last.calls) : last.calls[k].op = "sell"
                                            /\ last.calls[k].by \in RiskTags}

\* C14: in every step a BUY signal leads to exactly one buy(symbol, latest close,
\* configured quantity) attempt, a SELL signal to exactly one sell(symbol, latest
\* close) attempt and a HOLD signal to no ledger operation; the step leaves the ledger
\* that this one attempt produces, and with HOLD and no risk-guard trigger the
\* balance, the positions and the trade history are unchanged.
C14_OneAttemptPerSignal ==
    last.op = "step" =>
        /\ Cardinality({k \in 1..Len(last.calls) : last.calls[k].op = "generate_signal"}) = 1
        /\ last.calls[1].op = "generate_signal" /\ last.calls[1].ret = signal
        /\ signal = "BUY" =>
              /\ Cardinality(SignalDriven) = 1
              /\ \A k \in SignalDriven :
                    /\ last.calls[k].op = "buy"
                    /\ last.calls[k].symbol = SYMBOL
                    /\ last.calls[k].price = price
                    /\ last.calls[k].qty = QTY
                    /\ Ledger = buy(last.calls[k].pre, SYMBOL, price, QTY).ledger
        /\ signal = "SELL" =>
              /\ Cardinality(SignalDriven) = 1
              /\ \A k \in SignalDriven :
                    /\ last.calls[k].op = "sell"
                    /\ last.calls[k].symbol = SYMBOL
                    /\ last.calls[k].price = price
                    /\ Ledger = sell(last.calls[k].pre, SYMBOL, price).ledger
        /\ signal = "HOLD" => SignalDriven = {}
        /\ (signal = "HOLD" /\ RiskExits = {}) => (Ledger = last.pre /\ csv = last.csv)
        \* the latest close: in the backtest, the close of the row just processed
        /\ (last.mode = "BACKTEST") => price = df.rows[i]

\* a HOLD step that found an open position and left it alone
C14_Witness ==
    /\ last.op = "step"
    /\ signal = "HOLD"
    /\ RiskExits = {}
    /\ SYMBOL \in DOMAIN positions
    /\ Len(trades) >= 1
    /\ Ledger = last.pre


\* the ledger calls of the last step that changed the ledger, in the order made
Mutated(c) ==
    /\ c.op \in {"buy", "sell"}
    /\ IF c.op = "buy" THEN c.ret ELSE c.symbol \in DOMAIN c.pre.positions
StepMutations == SelectSeq(last.calls, Mutated)

C16_OneRowPerMutation ==
    /\ Len(csv) = Len(trades)
    /\ last.op = "step" =>
          /\ Len(StepRows) = Len(StepMutations)
          /\ \A k \in 1..Len(StepMutations) :
                k <= Len(StepRows) => StepRows[k][1] = StepMutations[k].by


(***************************************************************************)
(* Claims about the live loop (under SpecLive)                             *)
(***************************************************************************)

\* with the kill marker present at the top of the loop, the loop exits and nothing else
C17_ExitOnly ==
    /\ (MODE = "LIVE" /\ pc = "loop" /\ kill) =>
          /\ pc' = "stopped"
          /\ UNCHANGED <<ledgerVars, stratVars, csv, last, signal, price>>
    /\ (pc' # pc) => (kill /\ pc' = "stopped")

\* C17: in live mode the kill marker is checked at the start of every iteration, before
\* any fetch, signal evaluation or ledger operation: once it is present no iteration
\* and no retry runs, the loop exits, and the exit leaves the balance, the positions
\* and the trade history exactly as the previous iteration left them; the loop exits
\* for no other reason.
C17_KillSwitchStopsCleanly == [][C17_ExitOnly]_vars

\* the loop stopped by the marker with a position still open
C17_Witness ==
    /\ MODE = "LIVE" /\ pc = "stopped" /\ kill
    /\ last.op = "step"
    /\ SYMBOL \in DOMAIN positions
    /\ Len(trades) >= 1

\* a transition that records a failed fetch touches nothing else and leaves the loop
\* running
C18_RetryOnly ==
    (last' # last /\ last'.op = "retry") =>
        /\ UNCHANGED <<ledgerVars, stratVars, csv, signal, price, pc, kill>>
        /\ pc = "loop"
        /\ last'.pre = Ledger /\ last'.csv = csv

\* C18: in live mode an iteration whose fetch raises or returns an empty table performs
\* no signal evaluation and no ledger operation (balance, positions, trades, log and
\* signal history unchanged) and continues with the next iteration: the failure never
\* ends the loop, which stops only on the kill marker.
C18_FetchFailureRetries ==
    /\ [][C18_RetryOnly]_vars
    /\ []((MODE = "LIVE" /\ last.op = "retry" /\ ~kill) => pc = "loop")

\* a fetch that raised while a position was open: the loop is still running
C18_Witness ==
    /\ MODE = "LIVE" /\ pc = "loop" /\ ~kill
    /\ last.op = "retry" /\ last.why = "raised"
    /\ SYMBOL \in DOMAIN positions
    /\ Ledger = last.pre


(***************************************************************************)
(* Claims about the timestamps of the trade log (under SpecClocked)        *)
(***************************************************************************)

\* C19: trade records are appended in strictly increasing timestamp order: of any two
\* consecutive records of one run the later has the strictly greater timestamp, also
\* when both are written in the same step.
C19_StrictlyIncreasingTimestamps ==
    /\ Len(csv_timestamp) = Len(csv)
    /\ \A k \in 1..(Len(csv_timestamp) - 1) : csv_timestamp[k] < csv_timestamp[k + 1]


(***************************************************************************)
(* Claims about the order within one step (under Spec)                     *)
(***************************************************************************)

\* the position in last.calls of the step's call of generate_signal
SignalCalls == {k \in 1..Len(last.calls) : last.calls[k].op = "generate_signal"}

C21_GenerateSignalPure ==
    last.op = "generate_signal" =>
        /\ last.after = last.df
        /\ signal_history = last.history
        /\ last.ret = generate_signal(last.df, last.fast, last.slow, <<>>).ret

\* C21 (amended): generate_signal leaves the caller's table and the periods
\* unmodified, and the signal it returns is a function of the window and the two
\* periods alone, so two calls with equal windows return equal signals whatever was
\* called or recorded before; its one state change is that a call on a table with a
\* close column and at least slow_period + 1 rows appends the returned signal to the
\* signal history.
C21_SignalDependsOnWindowOnly ==
    last.op = "generate_signal" =>
        /\ last.after = last.df
        /\ fast_period = last.fast /\ slow_period = last.slow
        /\ last.ret = generate_signal(last.df, last.fast, last.slow, <<>>).ret
        /\ signal_history =
              (IF "close" \in last.df.columns /\ Len(last.df.rows) >= last.slow + 1
               THEN Append(last.history, last.ret) ELSE last.history)

\* a second call that returned the signal the first had already recorded
C21_Witness ==
    /\ last.op = "generate_signal"
    /\ last.ret = "BUY"
    /\ last.history = <<"BUY">>
    /\ signal_history = <<"BUY", "BUY">>


\* C22: a strategy whose periods satisfy fast_period < slow_period keeps them so: after
\* any set_parameters call on it fast_period < slow_period still holds, and a call that
\* is rejected leaves the previous fast_period and slow_period unchanged.
C22_PeriodsStayValid ==
    (last.op = "set_parameters" /\ last.fast < last.slow) =>
        /\ fast_period < slow_period
        /\ last.raised => (fast_period = last.fast /\ slow_period = last.slow)


(***************************************************************************)
(* Claims about the rows of the trade log (under Spec)                     *)
(***************************************************************************)

\* the calls of the last step that the row may report: same operation, label and symbol
RowCalls(row) ==
    {k \in 1..Len(last.calls) :
        /\ last.calls[k].op = (IF row[1] = "BUY" THEN "buy" ELSE "sell")
        /\ last.calls[k].by = row[1]
        /\ last.calls[k].symbol = row[2]
        /\ last.calls[k].price = row[3]}

\* C23: every trade-log row for a closing action (SELL, STOP-LOSS, TAKE-PROFIT)
\* carries the quantity actually closed, so that its pnl equals
\* (price - average_entry_price) * its qty, also when the closed position was built by
\* more than one buy; every BUY row has pnl 0 and the bought quantity.
C23_RowQuantityIsClosedQuantity ==
    last.op = "step" =>
        \A r \in 1..Len(StepRows) :
            LET row == StepRows[r]
            IN  \E k \in RowCalls(row) :
                    LET c == last.calls[k]
                    IN  IF row[1] = "BUY"
                        THEN c.ret /\ row[4] = c.qty /\ row[5] = IntRat(0)
                        ELSE /\ row[2] \in DOMAIN c.pre.positions
                             /\ LET pos == c.pre.positions[row[2]]
                                IN  /\ row[4] = pos.qty
                                    /\ row[5] = Rat((row[3] * pos.avg_price.d - pos.avg_price.n)
                                                        * row[4], pos.avg_price.d)


(***************************************************************************)
(* Claims about the termination of the live loop (under FairSpecLive)      *)
(***************************************************************************)

\* the loop leaves "while True" only with the marker present
C24_StopsOnlyOnMarker == (pc' # pc) => (kill /\ pc = "loop" /\ pc' = "stopped")

\* C24: live-mode liveness: if the kill marker becomes present and stays present, the
\* live loop eventually observes it and terminates (every fetch and sleep returning),
\* also when every fetch fails or returns no data; while the marker is absent the loop
\* never terminates on its own.
C24_LiveLoopStopsOnMarker ==
    /\ (MODE = "LIVE" /\ kill) ~> (pc = "stopped")
    /\ [](pc = "stopped" => kill)
    /\ [][C24_StopsOnlyOnMarker]_vars

\* the loop stopped by the marker right after a fetch that failed
C24_Witness ==
    /\ MODE = "LIVE" /\ pc = "stopped" /\ kill
    /\ last.op = "retry"


(***************************************************************************)
(* Claims about the two loops together (under Spec)                        *)
(***************************************************************************)

\* what the last step found: its ledger, its log, and its call of generate_signal
StepStart == [ledger |-> last.pre, csv |-> last.csv, calls |-> <<last.calls[1]>>]

\* the body of the backtest loop and the body of the live loop, each run on what the
\* last step found, with the signal, the close and the risk settings of that step
AsBacktestStep ==
    backtest_trades(StepStart, signal, price, stop_loss_percent, take_profit_percent)
AsLiveIteration ==
    live_trades(StepStart, signal, price, stop_loss_percent, take_profit_percent)

\* C25: backtest and live mode run the same step: for the same ledger state, window and
\* configuration (symbol, quantity, stop-loss and take-profit fractions), one live-loop
\* iteration and one backtest step perform the same sequence of ledger operations and
\* leave cash_balance, positions and trade history in the same state.
C25_SameStepInBothModes ==
    last.op = "step" =>
        /\ AsBacktestStep.calls = AsLiveIteration.calls
        /\ AsBacktestStep.ledger = AsLiveIteration.ledger
        /\ AsBacktestStep.csv = AsLiveIteration.csv
        /\ last.calls = AsLiveIteration.calls
        /\ Ledger = AsBacktestStep.ledger

\* a live iteration that took profit and bought again, as the backtest step would
C25_Witness ==
    /\ last.op = "step" /\ last.mode = "LIVE"
    /\ Len(last.calls) = 3
    /\ last.calls[2].op = "sell" /\ last.calls[2].by = "TAKE-PROFIT"
    /\ last.calls[3].op = "buy" /\ last.calls[3].ret
    /\ AsBacktestStep.ledger = Ledger


(***************************************************************************)
(* Claims about the ledger, continued (under SpecLedger)                   *)
(***************************************************************************)

\* the symbols whose latest record in the trade history is a SELL
SoldLast ==
    {s \in Symbols :
        \E k \in 1..Len(trades) :
            /\ trades[k][2] = s /\ trades[k][1] = "SELL"
            /\ \A j \in (k + 1)..Len(trades) : trades[j][2] # s}

\* C26: in every reachable ledger state (prices and quantities > 0) each stored position
\* has quantity > 0 and average_entry_price > 0, there is at most one position per
\* symbol, and a symbol that has been sold has no entry until its next successful buy.
C26_PositionsWellFormed ==
    /\ DOMAIN positions \subseteq Symbols
    /\ \A s \in DOMAIN positions :
          /\ DOMAIN positions[s] = {"qty", "avg_price"}
          /\ positions[s].qty > 0
          /\ positions[s].avg_price.n > 0 /\ positions[s].avg_price.d > 0
    /\ \A s \in SoldLast : s \notin DOMAIN positions
    /\ (last.op = "sell") => (last.symbol \notin DOMAIN positions)
    /\ (last.op = "buy" /\ ~last.ret) =>
          (last.symbol \in DOMAIN positions) = (last.symbol \in DOMAIN last.pre.positions)

\* a symbol just sold and flat, while the other symbol holds a position built by two
\* buys
C26_Witness ==
    /\ last.op = "sell" /\ last.symbol \in DOMAIN last.pre.positions
    /\ last.symbol \in SoldLast /\ last.symbol \notin DOMAIN positions
    /\ \E s \in DOMAIN positions : positions[s].qty > 10


(***************************************************************************)
(* Claims about the signals over one close series (under SpecStrategy)     *)
(***************************************************************************)

\* the table of the last generate_signal call as a close series, and the signal the
\* strategy returns for its window that ends at row t (1-based)
SeriesGiven == last.op = "generate_signal" /\ "close" \in last.df.columns
SeriesRows == last.df.rows
SignalAt(t) == generate_signal(window_df(last.df, t - 1), last.fast, last.slow, <<>>).ret

\* the fast average is above (below) the slow one at row t, both being defined there
FastAbove(t) ==
    Gt(rolling_mean(SeriesRows, last.fast, t), rolling_mean(SeriesRows, last.slow, t))
FastBelow(t) ==
    Lt(rolling_mean(SeriesRows, last.fast, t), rolling_mean(SeriesRows, last.slow, t))

\* strictly rising up to a peak inside the series, strictly falling after it
RisingThenFalling ==
    \E peak \in 2..(Len(SeriesRows) - 1) :
        /\ \A t \in 1..(peak - 1) : SeriesRows[t] < SeriesRows[t + 1]
        /\ \A t \in peak..(Len(SeriesRows) - 1) : SeriesRows[t] > SeriesRows[t + 1]

\* t is the first row of the series at which the predicate holds
FirstRow(P(_), t) == P(t) /\ \A u \in 1..(t - 1) : ~P(u)

\* no signal repeats while the order of the averages is unchanged
C27_NoRepeats ==
    \A a, b \in 1..Len(SeriesRows) :
        /\ (a < b /\ SignalAt(a) = "BUY" /\ SignalAt(b) = "BUY") =>
              (b > a + 1 /\ \E c \in (a + 1)..(b - 1) : ~FastAbove(c))
        /\ (a < b /\ SignalAt(a) = "SELL" /\ SignalAt(b) = "SELL") =>
              (b > a + 1 /\ \E c \in (a + 1)..(b - 1) : ~FastBelow(c))

\* C27 (as claimed): over successive windows of one close series, the SMA crossover emits
\* no repeated signal while the relative order of fast and slow is unchanged: BUY is
\* never emitted at two consecutive steps and between any two BUY signals there is a
\* step with fast <= slow (symmetrically for SELL with fast >= slow); on a strictly
\* rising then strictly falling series BUY appears exactly at the first row where fast
\* exceeds slow and SELL exactly at the first row where fast falls below slow.
C27_SignalAtFirstCross ==
    SeriesGiven =>
        /\ C27_NoRepeats
        /\ (RisingThenFalling /\ last.fast < last.slow) =>
              \A t \in 1..Len(SeriesRows) :
                  /\ (SignalAt(t) = "BUY") = FirstRow(FastAbove, t)
                  /\ (SignalAt(t) = "SELL") = FirstRow(FastBelow, t)


\* C27 (amended): no signal repeats while the order of the averages is unchanged, and
\* a signal is given only past the warm-up and only at a fresh cross: BUY at row t
\* needs t >= slow_period + 1, fast above slow at t and not above at t - 1 (SELL
\* symmetrically). On a strictly rising then strictly falling series fast is above slow
\* from the first row where both exist, which lies in the warm-up, so BUY never
\* appears; SELL appears exactly at the first row where fast falls below slow if that
\* row is past the warm-up, and not at all otherwise.
C27_SignalAtFreshCrossAfterWarmup ==
    SeriesGiven =>
        /\ C27_NoRepeats
        /\ \A t \in 1..Len(SeriesRows) :
              /\ SignalAt(t) = "BUY" =>
                    (t >= last.slow + 1 /\ FastAbove(t) /\ ~FastAbove(t - 1))
              /\ SignalAt(t) = "SELL" =>
                    (t >= last.slow + 1 /\ FastBelow(t) /\ ~FastBelow(t - 1))
        /\ (RisingThenFalling /\ last.fast < last.slow) =>
              \A t \in 1..Len(SeriesRows) :
                  /\ SignalAt(t) # "BUY"
                  /\ (SignalAt(t) = "SELL") = (FirstRow(FastBelow, t) /\ t >= last.slow + 1)

\* a series that rises and then falls: its first row with fast above slow got HOLD, and
\* the row where fast fell below slow got SELL
C27_Witness ==
    /\ SeriesGiven /\ RisingThenFalling /\ last.fast < last.slow
    /\ \E t \in 1..Len(SeriesRows) : FirstRow(FastAbove, t) /\ SignalAt(t) = "HOLD"
    /\ last.ret = "SELL" /\ FirstRow(FastBelow, Len(SeriesRows))


(***************************************************************************)
(* Accounting (under SpecLedger)                                           *)
(***************************************************************************)

RatPlus(a, b) == Rat(a.n * b.d + b.n * a.d, a.d * b.d)

\* the sum of quantity * average_entry_price over the positions of the symbols in S
RECURSIVE CostOfPositions(_)
CostOfPositions(S) ==
    IF S = {} THEN IntRat(0)
    ELSE LET s == CHOOSE x \in S : TRUE
         IN  RatPlus(Rat(positions[s].qty * positions[s].avg_price.n, positions[s].avg_price.d),
                     CostOfPositions(S \ {s}))

\* the sum of the pnl of the closing records among the first k trade records
RECURSIVE RealizedPnl(_)
RealizedPnl(k) ==
    IF k = 0 THEN IntRat(0)
    ELSE IF trades[k][1] = "SELL" THEN RatPlus(trades[k][5], RealizedPnl(k - 1))
    ELSE RealizedPnl(k - 1)

\* C28: accounting conservation: after any sequence of buys and sells (direct or driven
\* by the replay loop), cash_balance plus the sum of quantity * average_entry_price over
\* all open positions equals the initial balance plus the sum of the realized pnl of
\* all closing trade records.
C28_AccountingConservation ==
    RatPlus(IntRat(balance), CostOfPositions(DOMAIN positions))
        = RatPlus(IntRat(initial_balance), RealizedPnl(Len(trades)))

\* a pnl realized on one symbol while a position with a fractional average is open
C28_Witness ==
    /\ \E a \in 1..Len(trades) : trades[a][1] = "SELL" /\ trades[a][5].n # 0
    /\ \E s \in DOMAIN positions : positions[s].avg_price.d > 1
    /\ balance # initial_balance


(***************************************************************************)
(* Claims about a risk exit and the signal of the same step (under Spec)   *)
(***************************************************************************)

\* C29: a risk-guard exit does not suppress the same step's signal. When the guard
\* closes the position in a step whose signal is BUY, the buy is still executed in that
\* step, so the step ends with a new position of the configured quantity whose
\* average_entry_price is that step's close; when the signal is SELL, the second sell
\* finds no position, is a no-op, and no second closing record is appended for that
\* step.
C29_ExitKeepsSignal ==
    (last.op = "step" /\ RiskExits # {}) =>
        /\ signal = "BUY" =>
              /\ \E k \in SignalDriven :
                    /\ last.calls[k].op = "buy" /\ last.calls[k].ret
                    /\ \A x \in RiskExits : x < k
                    /\ SYMBOL \notin DOMAIN last.calls[k].pre.positions
              /\ SYMBOL \in DOMAIN positions
              /\ positions[SYMBOL] = [qty |-> QTY, avg_price |-> IntRat(price)]
              /\ trades[Len(trades)] = <<"BUY", SYMBOL, price, QTY>>
        /\ signal = "SELL" =>
              /\ \E k \in SignalDriven :
                    /\ last.calls[k].op = "sell" /\ last.calls[k].ret = IntRat(0)
                    /\ \A x \in RiskExits : x < k
                    /\ SYMBOL \notin DOMAIN last.calls[k].pre.positions
                    /\ Ledger = last.calls[k].pre
              /\ Len(StepTrades) = Cardinality(RiskExits)
              /\ Len(StepRows) = Cardinality(RiskExits)
              /\ \A r \in 1..Len(StepRows) : StepRows[r][1] \in RiskTags
              /\ SYMBOL \notin DOMAIN positions

\* a backtest step whose SELL signal came after the stop-loss had closed the position
C29_Witness ==
    /\ last.op = "step" /\ last.mode = "BACKTEST"
    /\ signal = "SELL"
    /\ Len(last.calls) = 3
    /\ last.calls[2].op = "sell" /\ last.calls[2].by = "STOP-LOSS"
    /\ last.calls[3].op = "sell" /\ last.calls[3].by = "SELL"
    /\ last.calls[3].ret = IntRat(0)
    /\ Len(StepTrades) = 1


(***************************************************************************)
(* Claims about the first step of a backtest (under SpecBacktest)          *)
(***************************************************************************)

\* what the strategy of the run returns for the first n rows of the table
SignalOfPrefix(n) ==
    generate_signal(window_df(df, n - 1), fast_period, slow_period, <<>>).ret

\* C30: the backtest evaluates the strategy on every prefix of the table whose length is
\* at least required_warmup_periods() (slow_period + 1 for SMA crossover), so the first
\* window passed to generate_signal has exactly required_warmup_periods() rows and no
\* crossover that the strategy is able to report is skipped by the loop.
C30_EveryPrefixFromWarmup ==
    (MODE = "BACKTEST" /\ last.op = "step") =>
        LET w == get_required_periods(slow_period)
        IN  /\ (StepsRun = 1) => (last.calls[1].rows = w)
            /\ \A n \in 1..i :
                  (SignalOfPrefix(n) # "HOLD") =>
                      (n > i - StepsRun /\ signal_history[n - (i - StepsRun)] = SignalOfPrefix(n))

=============================================================================
